---- MODULE Spec2Model ----
(***************************************************************************)
(* Model of pdf_service.py: the POST /generate-pdf handler, the static     *)
(* retrieval mount /pdfs and the background task cleanup_old_pdfs, sharing  *)
(* the directory generated_pdfs.                                            *)
(*                                                                          *)
(* Time is a discrete clock.  Handler coroutines and the sweeper share one  *)
(* asyncio event loop: a sweep cycle contains no await, so no coroutine     *)
(* step runs between its first and last statement.  The file write of      *)
(* page.pdf(path=...) and the passing of time are not bound to the event    *)
(* loop and interleave with a running cycle.                                *)
(* The cookie forwarding of generate_pdf (lines 128-142) touches only the   *)
(* private browser context of a request and is left out.                    *)
(***************************************************************************)
EXTENDS Integers, FiniteSets, Sequences, TLC

\* ------------------------------------------------------------------ bounds
\* Last instant of the discrete clock.
MaxTime == 2

\* ------------------------------------------------------- program constants
\* PDF_RETENTION_SECONDS and PDF_CLEANUP_INTERVAL, in clock ticks.
PDF_RETENTION_SECONDS == 1
PDF_CLEANUP_INTERVAL == 1
PDF_DIR == "generated_pdfs"
\* The request's scheme and the default port of the host fallback.
Scheme == "http"
DefaultHost == "localhost:8080"

\* Concurrent request slots, and the values uuid.uuid4() can return.
Reqs == {"r1", "r2"}
Ids == {"u1", "u2"}
\* What the directory holds from earlier runs of the process when it starts:
\* one PDF written at time 0 and one entry that is not a regular file.
OldFile == "old.pdf"
SubDir == "sub"
\* The JSON bodies: the keys of the object among html and url.
Bodies == SUBSET {"html", "url"}
\* The values of PDF_BASE_URL (unset is "") and of the host header (absent
\* is "") a request is answered under.
BaseUrls == {"", "https://cdn.example"}
Hosts == {"", "svc.example"}
\* The call of the sweeper's try block that raises, if one does.
Faults == {"none", "getmtime", "remove"}
NoId == "none"

VARIABLES
    clock,      \* time.time()
    files,      \* directory generated_pdfs: entry name -> [kind, mtime, content]
    req,        \* per request slot: the handler's position and locals
    issued,     \* identifiers uuid4 has returned so far
    sw,         \* the cleanup task: position and locals
    tasks,      \* number of cleanup tasks created
    swept       \* names removed by the cleanup task so far

vars == <<clock, files, req, issued, sw, tasks, swept>>

\* ----------------------------------------------------------------- helpers
\* f"{pdf_id}.pdf"
FileName(id) == id \o ".pdf"
\* os.path.join(PDF_DIR, f"{pdf_id}.pdf")
OutputPath(id) == <<PDF_DIR, FileName(id)>>
\* The directory entry a path of PDF_DIR names.
Entry(path) == path[2]

Names == {FileName(i) : i \in Ids} \cup {OldFile, SubDir}

\* Directory without entry f.
Unlink(dir, f) == [n \in (DOMAIN dir) \ {f} |-> dir[n]]

\* os.listdir(PDF_DIR): the entries, in an order the caller does not choose.
RECURSIVE SeqOf(_)
SeqOf(S) == IF S = {} THEN <<>>
            ELSE LET x == CHOOSE y \in S : TRUE IN <<x>> \o SeqOf(S \ {x})
ListDir(dir) == SeqOf(DOMAIN dir)

\* The elements of a sequence.
Range(q) == {q[k] : k \in DOMAIN q}

\* os.path.isfile(file_path): false for a missing entry, never raises.
IsFile(f) == f \in DOMAIN files /\ files[f].kind = "file"

\* age > PDF_RETENTION_SECONDS
ExpiredGe(age) == age >= PDF_RETENTION_SECONDS
Expired(age) == age > PDF_RETENTION_SECONDS

\* The branch generate_pdf takes on the body's keys.
BranchUrlFirst(keys) ==
    IF "url" \in keys THEN "url" ELSE IF "html" \in keys THEN "html" ELSE "none"
BranchDefaultHtml(keys) ==
    IF "url" \in keys /\ "html" \notin keys THEN "url" ELSE "html"
Branch(keys) ==
    IF "html" \in keys THEN "html" ELSE IF "url" \in keys THEN "url" ELSE "none"

\* The values uuid.uuid4() may return: one never returned before.
Uuid4Reused == Ids
Uuid4 == Ids \ issued

\* base_url: PDF_BASE_URL, or scheme://host with the host header or its
\* default.
BaseUrl(env, host) ==
    IF env # "" THEN env
    ELSE Scheme \o "://" \o (IF host # "" THEN host ELSE DefaultHost)

\* f"{base_url}/pdfs/{pdf_id}.pdf", as its path segments.
PdfUrlOther(base, id) == <<base, "pdfs", FileName(CHOOSE i \in Ids : i # id)>>
PdfUrl(base, id) == <<base, "pdfs", FileName(id)>>
LastSegment(url) == url[Len(url)]

\* The event loop is free for a coroutine step: the startup event has
\* completed and the sweeper is not inside a cycle.
LoopFree == sw.pc \in {"ready", "sleep"}

NoResp == [status |-> 0, field |-> "", url |-> <<>>]
IdleReq == [pc |-> "idle", keys |-> {}, id |-> NoId, loaded |-> "none",
            wrote |-> {}, resp |-> NoResp]
IdleSweeper == [pc |-> "init", now |-> 0, removed |-> 0, list |-> <<>>, i |-> 1,
                raised |-> FALSE, slept |-> 0]

\* -------------------------------------------------------------------- Init
Init ==
    /\ clock = 0
    /\ files = (OldFile :> [kind |-> "file", mtime |-> 0, content |-> "full"])
               @@ (SubDir :> [kind |-> "dir", mtime |-> 0, content |-> ""])
    /\ req = [r \in Reqs |-> IdleReq]
    /\ issued = {}
    /\ sw = IdleSweeper
    /\ tasks = 0
    /\ swept = {}

\* ------------------------------------------------------------------- clock
\* Time passes; a sleeping sweeper's timer advances with it.
Tick ==
    /\ \/ clock < MaxTime
       \/ sw.pc = "sleep" /\ sw.slept < PDF_CLEANUP_INTERVAL
    /\ clock' = IF clock < MaxTime THEN clock + 1 ELSE clock
    /\ sw' = IF sw.pc = "sleep" /\ sw.slept < PDF_CLEANUP_INTERVAL
             THEN [sw EXCEPT !.slept = @ + 1] ELSE sw
    /\ UNCHANGED <<files, req, issued, tasks, swept>>

\* ----------------------------------------------------------- generate_pdf
\* Lines 124-144: the body is parsed, the identifier and the output path are
\* made, the browser, its context and a page are opened.
Receive(r) ==
    /\ LoopFree
    /\ req[r].pc = "idle"
    /\ \E keys \in Bodies, id \in Uuid4 :
        /\ req' = [req EXCEPT ![r] = [@ EXCEPT !.pc = "open", !.keys = keys,
                                                !.id = id]]
        /\ issued' = issued \cup {id}
    /\ UNCHANGED <<clock, files, sw, tasks, swept>>

\* Lines 146-155: set_content, goto, or the 400 answer.
LoadPage(r) ==
    /\ LoopFree
    /\ req[r].pc = "open"
    /\ LET b == Branch(req[r].keys) IN
       req' = [req EXCEPT ![r] =
                IF b = "none"
                THEN [@ EXCEPT !.pc = "done",
                               !.resp = [status |-> 400, field |-> "error",
                                         url |-> <<>>]]
                ELSE [@ EXCEPT !.pc = "loaded", !.loaded = b]]
    /\ UNCHANGED <<clock, files, issued, sw, tasks, swept>>

\* Lines 93-105, first half of page.pdf(path=output_path): the engine has
\* produced the bytes and the output file is opened for writing (created or
\* truncated), empty so far.
WriteOpen(r) ==
    /\ req[r].pc = "loaded"
    /\ LET f == Entry(OutputPath(req[r].id)) IN
       /\ files' = [n \in (DOMAIN files) \cup {f} |->
                      IF n = f THEN [kind |-> "file", mtime |-> clock,
                                     content |-> "partial"]
                      ELSE files[n]]
       /\ req' = [req EXCEPT ![r] = [@ EXCEPT !.pc = "writing",
                                              !.wrote = @ \cup {OutputPath(req[r].id)}]]
    /\ UNCHANGED <<clock, issued, sw, tasks, swept>>

\* Second half of page.pdf(path=output_path): the bytes are written and the
\* file is closed.  A file unlinked in between keeps no directory entry.
WriteFinish(r) ==
    /\ req[r].pc = "writing"
    /\ LET f == Entry(OutputPath(req[r].id)) IN
       files' = IF f \in DOMAIN files
                THEN [files EXCEPT ![f] = [kind |-> "file", mtime |-> clock,
                                           content |-> "full"]]
                ELSE files
    /\ req' = [req EXCEPT ![r] = [@ EXCEPT !.pc = "written"]]
    /\ UNCHANGED <<clock, issued, sw, tasks, swept>>

\* Lines 158-168: browser.close(), the base URL and the 200 answer.
RespondEarly(r) ==
    /\ LoopFree
    /\ req[r].pc \in {"writing", "written"}
    /\ \E env \in BaseUrls, host \in Hosts :
        req' = [req EXCEPT ![r] =
                 [@ EXCEPT !.pc = "done",
                           !.resp = [status |-> 200, field |-> "pdf_url",
                                     url |-> PdfUrl(BaseUrl(env, host), req[r].id)]]]
    /\ UNCHANGED <<clock, files, issued, sw, tasks, swept>>
Respond(r) ==
    /\ LoopFree
    /\ req[r].pc = "written"
    /\ \E env \in BaseUrls, host \in Hosts :
        req' = [req EXCEPT ![r] =
                 [@ EXCEPT !.pc = "done",
                           !.resp = [status |-> 200, field |-> "pdf_url",
                                     url |-> PdfUrl(BaseUrl(env, host), req[r].id)]]]
    /\ UNCHANGED <<clock, files, issued, sw, tasks, swept>>

\* An awaited browser operation (launch, set_content, goto, pdf, close) or
\* the file write raises: nothing in generate_pdf catches it, and the
\* framework answers 500.
EngineErrorCleanup(r) ==
    /\ \/ LoopFree /\ req[r].pc \in {"open", "loaded", "written"}
       \/ req[r].pc = "writing"
    /\ req' = [req EXCEPT ![r] =
                [@ EXCEPT !.pc = "done",
                          !.resp = [status |-> 500, field |-> "", url |-> <<>>]]]
    /\ files' = Unlink(files, FileName(req[r].id))
    /\ UNCHANGED <<clock, issued, sw, tasks, swept>>
EngineError(r) ==
    /\ \/ LoopFree /\ req[r].pc \in {"open", "loaded", "written"}
       \/ req[r].pc = "writing"
    /\ req' = [req EXCEPT ![r] =
                [@ EXCEPT !.pc = "done",
                          !.resp = [status |-> 500, field |-> "", url |-> <<>>]]]
    /\ UNCHANGED <<clock, files, issued, sw, tasks, swept>>

\* ------------------------------------------------- static mount /pdfs
\* GET /pdfs/<n>: StaticFiles keeps no state and answers with the file as it
\* is in the directory at that moment, or with 404.
StaticResponse(n) ==
    IF IsFile(n) THEN [status |-> 200, content |-> files[n].content]
    ELSE [status |-> 404, content |-> ""]

\* ------------------------------------------------------ cleanup_old_pdfs
\* Lines 84-86: the startup event creates the task.
Startup ==
    /\ sw.pc = "init"
    /\ sw' = [sw EXCEPT !.pc = "ready"]
    /\ tasks' = tasks + 1
    /\ UNCHANGED <<clock, files, req, issued, swept>>

\* Lines 68-70: now, removed = 0, os.listdir(PDF_DIR).
SweepBegin ==
    /\ sw.pc = "ready"
    /\ sw' = [sw EXCEPT !.pc = "iter", !.now = clock, !.removed = 0,
                        !.list = ListDir(files), !.i = 1, !.raised = FALSE]
    /\ UNCHANGED <<clock, files, req, issued, tasks, swept>>

\* Lines 78-79: except Exception: pass.  The loop goes on with the next entry.
OnFileErrorRaise(f) ==
    /\ sw' = [sw EXCEPT !.pc = "failed", !.raised = TRUE]
    /\ UNCHANGED <<files, swept>>
OnFileErrorBreak(f) ==
    /\ sw' = [sw EXCEPT !.i = Len(sw.list) + 1, !.raised = TRUE]
    /\ UNCHANGED <<files, swept>>
OnFileError(f) ==
    /\ sw' = [sw EXCEPT !.i = @ + 1, !.raised = TRUE]
    /\ UNCHANGED <<files, swept>>

\* Lines 76-77: os.remove(file_path); removed += 1.
RemoveFile(f) ==
    /\ files' = Unlink(files, f)
    /\ swept' = swept \cup {f}
    /\ sw' = [sw EXCEPT !.i = @ + 1, !.removed = @ + 1, !.raised = FALSE]

\* An entry that is not a regular file, or not old enough: nothing happens.
KeepFile(f) ==
    /\ sw' = [sw EXCEPT !.i = @ + 1, !.raised = FALSE]
    /\ UNCHANGED <<files, swept>>

\* Lines 70-79: the loop body for the next listed entry.  fault names the
\* call that raises, if one does.
SweepFile(fault) ==
    /\ sw.pc = "iter"
    /\ sw.i <= Len(sw.list)
    /\ LET f == sw.list[sw.i] IN
       IF ~IsFile(f) THEN fault = "none" /\ KeepFile(f)
       ELSE IF fault = "getmtime" THEN OnFileError(f)
       ELSE IF ~Expired(sw.now - files[f].mtime)
            THEN fault = "none" /\ KeepFile(f)
            ELSE IF fault = "remove" THEN OnFileError(f) ELSE RemoveFile(f)
    /\ UNCHANGED <<clock, req, issued, tasks>>

\* Lines 80-82: the loop over the listing is over; the tally is printed when
\* it is not zero (output only) and asyncio.sleep begins.  now, removed and
\* the listing are dead until lines 68-70 assign them again.
SweepEnd ==
    /\ sw.pc = "iter"
    /\ sw.i > Len(sw.list)
    /\ sw' = [IdleSweeper EXCEPT !.pc = "sleep"]
    /\ UNCHANGED <<clock, files, req, issued, tasks, swept>>

\* Lines 82 and 67: the sleep is over, the loop iterates.
SweepWakeExit ==
    /\ sw.pc = "sleep"
    /\ sw.slept >= PDF_CLEANUP_INTERVAL
    /\ sw' = [sw EXCEPT !.pc = "finished", !.slept = 0]
    /\ UNCHANGED <<clock, files, req, issued, tasks, swept>>
SweepWake ==
    /\ sw.pc = "sleep"
    /\ sw.slept >= PDF_CLEANUP_INTERVAL
    /\ sw' = [sw EXCEPT !.pc = "ready", !.slept = 0]
    /\ UNCHANGED <<clock, files, req, issued, tasks, swept>>

Sweeper ==
    \/ Startup
    \/ SweepBegin
    \/ \E fault \in Faults : SweepFile(fault)
    \/ SweepEnd
    \/ SweepWake

Handler(r) ==
    \/ Receive(r)
    \/ LoadPage(r)
    \/ WriteOpen(r)
    \/ WriteFinish(r)
    \/ Respond(r)
    \/ EngineError(r)

Next ==
    \/ Tick
    \/ \E r \in Reqs : Handler(r)
    \/ Sweeper

Spec == Init /\ [][Next]_vars

\* The sweeper beside the requests of one slot, under the scheduling the
\* event loop gives: the clock advances and a task that can run does run.
LiveReqs == {"r1"}
LiveNext ==
    \/ Tick
    \/ \E r \in LiveReqs : Handler(r)
    \/ Sweeper

LiveSpec ==
    /\ Init
    /\ [][LiveNext]_vars
    /\ WF_vars(Tick)
    /\ WF_vars(Sweeper)

\* ================================================================== claims
\* The entry a request writes, and whether its handler has answered.
OwnFile(r) == FileName(req[r].id)
Answered(r, code) == req[r].pc = "done" /\ req[r].resp.status = code
\* The sweeper has gone through its whole listing and has not yet started
\* the sleep.
CycleOver == sw.pc = "iter" /\ sw.i > Len(sw.list)
\* The step processes one listed entry.
Processes(f) ==
    /\ sw.pc = "iter"
    /\ sw.i <= Len(sw.list)
    /\ sw.list[sw.i] = f
    /\ sw' # sw
\* The last processed entry was f and its inspection or removal raised.
Swallowed(f) ==
    /\ sw.pc = "iter"
    /\ sw.i > 1
    /\ sw.i - 1 <= Len(sw.list)
    /\ sw.list[sw.i - 1] = f
    /\ sw.raised

C2_Success ==
    \A r \in Reqs :
        (req[r].pc = "done" /\ req[r].keys # {} /\ req[r].resp.status # 500) =>
            /\ req[r].resp.status = 200
            /\ req[r].resp.field = "pdf_url"
            /\ LastSegment(req[r].resp.url) = req[r].id \o ".pdf"
            /\ req[r].wrote = {<<PDF_DIR, req[r].id \o ".pdf">>}
            /\ req[r].loaded \in req[r].keys

C2_Witness ==
    \E r1, r2 \in Reqs :
        /\ req[r1].keys = {"html"} /\ Answered(r1, 200)
        /\ req[r2].keys = {"url"} /\ Answered(r2, 200)

\* C3: two requests in flight at once have distinct identifiers and distinct
\* output paths, neither writes the other's file, and each pdf_url names the
\* file its own request wrote.
C3_Distinct ==
    \A r1, r2 \in Reqs :
        (r1 # r2 /\ req[r1].pc # "idle" /\ req[r2].pc # "idle") =>
            /\ req[r1].id # req[r2].id
            /\ OutputPath(req[r1].id) # OutputPath(req[r2].id)
            /\ req[r1].wrote \cap req[r2].wrote = {}
            /\ req[r1].resp.status = 200 =>
                /\ <<PDF_DIR, LastSegment(req[r1].resp.url)>> \in req[r1].wrote
                /\ <<PDF_DIR, LastSegment(req[r1].resp.url)>> \notin req[r2].wrote

C3_Witness ==
    \E r1, r2 \in Reqs :
        /\ r1 # r2
        /\ req[r1].pc = "writing" /\ req[r2].pc = "writing"
        /\ OwnFile(r1) \in DOMAIN files /\ OwnFile(r2) \in DOMAIN files

\* C4 as stated: when a cycle is over, no listed regular file older than the
\* threshold (by the cycle's now) is left, and the tally is the number of
\* listed entries removed.
C4_Original ==
    CycleOver =>
        /\ \A f \in Range(sw.list) :
              ~(IsFile(f) /\ sw.now - files[f].mtime > PDF_RETENTION_SECONDS)
        /\ sw.removed = Cardinality(Range(sw.list) \ DOMAIN files)

\* C4 amended: a cycle removes a listed entry exactly when it is a regular
\* file whose age by the cycle's now exceeds the threshold and neither its
\* inspection nor its removal raises; every other entry stays; the tally is
\* the number of entries the cycle has removed.
C4_Cycle ==
    /\ [](sw.pc = "iter" =>
            sw.removed = Cardinality(Range(sw.list) \ DOMAIN files))
    /\ [][\A f \in Names : Processes(f) =>
            /\ (f \notin DOMAIN files') <=>
                  /\ f \in DOMAIN files
                  /\ files[f].kind = "file"
                  /\ sw.now - files[f].mtime > PDF_RETENTION_SECONDS
                  /\ ~sw'.raised
            /\ sw'.removed = sw.removed + (IF f \notin DOMAIN files' THEN 1 ELSE 0)
            /\ \A g \in (DOMAIN files) \ {f} : g \in DOMAIN files'
         ]_vars

C4_Witness ==
    /\ CycleOver
    /\ sw.removed = 1
    /\ \E f \in Range(sw.list) :
          IsFile(f) /\ sw.now - files[f].mtime = PDF_RETENTION_SECONDS

C7_Swallowed ==
    /\ [][(sw.pc = "iter" /\ sw' # sw /\ sw'.raised) =>
            /\ files' = files
            /\ sw'.removed = sw.removed
            /\ sw'.pc = "iter"
            /\ sw'.i = sw.i + 1
            /\ sw'.list = sw.list
            /\ sw'.now = sw.now
         ]_vars
    /\ [][(sw.pc = "iter" /\ sw'.pc # "iter") =>
            (sw.i = Len(sw.list) + 1 /\ sw'.pc = "sleep")
         ]_vars

C7_Witness ==
    /\ sw.pc = "iter"
    /\ sw.raised
    /\ sw.i <= Len(sw.list)
    /\ IsFile(sw.list[sw.i])
    /\ sw.now - files[sw.list[sw.i]].mtime > PDF_RETENTION_SECONDS

\* C8: a directory entry appears only by a request's write of its own output
\* file, disappears only by the sweeper's removal of a regular file older
\* than the threshold, and a completely written file is never changed.
C8_Lifecycle ==
    [][\A f \in Names :
        /\ (f \notin DOMAIN files /\ f \in DOMAIN files') =>
              \E r \in Reqs :
                  /\ req[r].pc = "loaded" /\ req'[r].pc = "writing"
                  /\ f = req[r].id \o ".pdf"
        /\ (f \in DOMAIN files /\ f \notin DOMAIN files') =>
              /\ sw.pc = "iter" /\ sw'.removed = sw.removed + 1
              /\ files[f].kind = "file"
              /\ sw.now - files[f].mtime > PDF_RETENTION_SECONDS
              /\ clock - files[f].mtime > PDF_RETENTION_SECONDS
              /\ req' = req
        /\ (f \in DOMAIN files /\ f \in DOMAIN files'
                /\ files[f].content # "partial") =>
              files'[f] = files[f]
      ]_vars

C8_Witness ==
    \E r1, r2 \in Reqs :
        /\ OwnFile(r1) \in swept
        /\ req[r2].pc = "writing"
        /\ OwnFile(r2) \in DOMAIN files
        /\ clock - files[OwnFile(r2)].mtime = PDF_RETENTION_SECONDS

\* C9 as stated: the static path never answers with the file of a request
\* whose write is in progress, a pdf_url is returned only after the write,
\* and the file of a successfully answered request exists.
C9_Original ==
    \A r \in Reqs :
        /\ req[r].pc = "writing" => StaticResponse(OwnFile(r)).status # 200
        /\ req[r].resp.status = 200 =>
              /\ req[r].pc = "done"
              /\ StaticResponse(OwnFile(r)) = [status |-> 200, content |-> "full"]

\* C9 amended: a pdf_url is returned only after the request's write has
\* completed, so the file it names is never one still being written; the
\* request has written exactly that one file, and it exists unless the
\* sweeper has removed it.
C9_Served ==
    \A r \in Reqs :
        req[r].resp.status = 200 =>
            LET n == LastSegment(req[r].resp.url) IN
            /\ req[r].pc = "done"
            /\ req[r].wrote = {<<PDF_DIR, n>>}
            /\ StaticResponse(n).content # "partial"
            /\ n \in DOMAIN files \/ n \in swept
            /\ n \in DOMAIN files =>
                  StaticResponse(n) = [status |-> 200, content |-> "full"]

C9_Witness ==
    \E r1, r2 \in Reqs :
        /\ Answered(r1, 200) /\ StaticResponse(OwnFile(r1)).status = 404
        /\ req[r2].pc = "writing"
        /\ StaticResponse(OwnFile(r2)) = [status |-> 200, content |-> "partial"]

\* C10: a request with both html and url takes the html branch: the page is
\* set from html, the url is never loaded, and the answer is never 400 but
\* the 200 of an html request.
C10_HtmlWins ==
    \A r \in Reqs :
        req[r].keys = {"html", "url"} =>
            /\ req[r].loaded # "url"
            /\ req[r].pc \in {"loaded", "writing", "written"} =>
                  req[r].loaded = "html"
            /\ req[r].resp.status # 400
            /\ (req[r].pc = "done" /\ req[r].resp.status # 500) =>
                  /\ req[r].resp.status = 200
                  /\ req[r].resp.field = "pdf_url"
                  /\ req[r].loaded = "html"

C10_Witness ==
    \E r \in Reqs : req[r].keys = {"html", "url"} /\ Answered(r, 200)

====
